---- MODULE Spec2Model ----
(***************************************************************************)
(* Model of the gossipsub Mesh (protocols/gossipsub/src/mesh.rs): a map    *)
(* from TopicHash to the Vec<PeerId> of peers grafted to the topic.        *)
(*                                                                         *)
(* TopicHash and PeerId are opaque, comparable identifiers: they are       *)
(* modelled as small integers.  A Vec<PeerId> is a sequence; the HashMap   *)
(* is a function whose DOMAIN is the set of keys.                          *)
(*                                                                         *)
(* Every method is a pure operator from the mesh before the call (and the  *)
(* arguments) to the record [m |-> mesh after the call, ret |-> value      *)
(* returned].  The actions apply the operators and record the call, the    *)
(* returned value and the mesh before the call.                            *)
(***************************************************************************)
EXTENDS Integers, Sequences, FiniteSets, TLC

\* ---------------------------------------------------------------- bounds
NumPeers == 2
MaxLen == 3

\* ------------------------------------------------------------- constants
\* constants.rs: pub const HIGH_WM_MESH_DEGREE: u32 = 12;
HIGH_WM_MESH_DEGREE == 12

\* The topic hashes the calls are made with.
Topics == {1, 2}
Peers == 1..NumPeers

\* ----------------------------------------------------------------- state
VARIABLES
    m,        \* Mesh.m : HashMap<TopicHash, Vec<PeerId>>
    call,     \* the last method called on the mesh, with its arguments
    ret,      \* the value that call returned
    pre_m,    \* Mesh.m as it was when the last call was made
    msgs,     \* the GMessage values at hand (message.rs)
    mout,     \* the last operation applied to them and what it returned
    ctl       \* the last control record converted and the wire record made

vars == <<m, call, ret, pre_m, msgs, mout, ctl>>

\* -------------------------------------------------------------- helpers
Range(s) == {s[i] : i \in 1..Len(s)}

NoDup(s) == \A i, j \in 1..Len(s) : s[i] = s[j] => i = j

\* Vec::remove(pos): the vector without the element at (1-based) pos.
VecRemove(s, pos) == [i \in 1..(Len(s) - 1) |-> IF i < pos THEN s[i] ELSE s[i + 1]]

\* Iterator::find / the enumerate loop: the first position holding p, 0 if none.
Position(s, p) ==
    IF \E i \in 1..Len(s) : s[i] = p
    THEN CHOOSE i \in 1..Len(s) : s[i] = p /\ \A j \in 1..(i - 1) : s[j] # p
    ELSE 0

\* HashMap::insert(k, v) on the map.
MapInsert(map, k, v) == [t \in (DOMAIN map) \cup {k} |-> IF t = k THEN v ELSE map[t]]

\* HashMap::remove(k) on the map.
MapRemove(map, k) == [t \in (DOMAIN map) \ {k} |-> map[t]]

\* Returned values: Result<T, GError> and Option<T> as a tag and a payload;
\* the payload is always a sequence of peers (empty for errors, None and ()).
Ok(v) == [tag |-> "Ok", val |-> v]
Err(e) == [tag |-> e, val |-> <<>>]
Some(v) == [tag |-> "Some", val |-> v]
None == [tag |-> "None", val |-> <<>>]
Unit == [tag |-> "Unit", val |-> <<>>]

\* ------------------------------------------------------------ operations
\* Mesh::new
Mesh_new == [t \in {} |-> <<>>]

\* insert as self.m.entry(k).or_insert(v): a value already held is kept.
insert_keeps_old(map, k, v) ==
    [m   |-> IF k \in DOMAIN map THEN map ELSE MapInsert(map, k, v),
     ret |-> IF k \in DOMAIN map THEN Some(map[k]) ELSE None]

\* Mesh::insert: self.m.insert(k, v), which returns the value k held.
insert(map, k, v) ==
    [m   |-> MapInsert(map, k, v),
     ret |-> IF k \in DOMAIN map THEN Some(map[k]) ELSE None]

\* Mesh::get_peers_from_topic
get_peers_from_topic(map, th) ==
    [m   |-> map,
     ret |-> IF th \in DOMAIN map THEN Ok(map[th]) ELSE Err("TopicNotInMesh")]

\* Mesh::get_peer_from_topic
get_peer_from_topic(map, th, p) ==
    LET got == get_peers_from_topic(map, th).ret
    IN  [m   |-> map,
         ret |-> IF got.tag = "Ok"
                 THEN IF Position(got.val, p) # 0
                      THEN Ok(<<got.val[Position(got.val, p)]>>)
                      ELSE Err("NotGraftedToTopic")
                 ELSE got]

\* add_peer as self.m.entry(th).or_insert(vec![]).push(p): an absent topic
\* is created.
add_peer_or_insert(map, th, p) ==
    [m   |-> IF th \in DOMAIN map
             THEN [map EXCEPT ![th] = Append(@, p)]
             ELSE MapInsert(map, th, <<p>>),
     ret |-> Unit]

\* Mesh::add_peer: self.m.entry(th).and_modify(|ps| ps.push(p)); returns ().
add_peer(map, th, p) ==
    [m   |-> IF th \in DOMAIN map
             THEN [map EXCEPT ![th] = Append(@, p)]
             ELSE map,
     ret |-> Unit]

\* remove as clearing the topic's vector: the key stays, with no peers.
remove_clears(map, th) ==
    IF th \in DOMAIN map
    THEN [m |-> [map EXCEPT ![th] = <<>>], ret |-> Ok(map[th])]
    ELSE [m |-> map, ret |-> Err("TopicNotInMesh")]

\* Mesh::remove
remove(map, th) ==
    IF th \in DOMAIN map
    THEN [m |-> MapRemove(map, th), ret |-> Ok(map[th])]
    ELSE [m |-> map, ret |-> Err("TopicNotInMesh")]

\* remove_peer_from_topic with the two error arms exchanged.
remove_peer_from_topic_swapped(map, th, p) ==
    LET removed == remove(map, th)
    IN  IF removed.ret.tag = "Ok"
        THEN LET pos == Position(removed.ret.val, p)
             IN  IF pos # 0
                 THEN [m |-> removed.m, ret |-> Ok(<<>>),
                       peers |-> VecRemove(removed.ret.val, pos)]
                 ELSE [m |-> removed.m, ret |-> Err("TopicNotInMesh"),
                       peers |-> removed.ret.val]
        ELSE [m |-> removed.m, ret |-> Err("NotGraftedToTopic"), peers |-> <<>>]

\* Mesh::remove_peer_from_topic: self.remove(th) takes the topic's vector out
\* of the map; the peer is removed from that local vector, which is dropped
\* when the method returns (peers holds its last value).
remove_peer_from_topic(map, th, p) ==
    LET removed == remove(map, th)
    IN  IF removed.ret.tag = "Ok"
        THEN LET pos == Position(removed.ret.val, p)
             IN  IF pos # 0
                 THEN [m |-> removed.m, ret |-> Ok(<<>>),
                       peers |-> VecRemove(removed.ret.val, pos)]
                 ELSE [m |-> removed.m, ret |-> Err("NotGraftedToTopic"),
                       peers |-> removed.ret.val]
        ELSE [m |-> removed.m, ret |-> Err("TopicNotInMesh"), peers |-> <<>>]

\* --------------------------------------------------------------- inputs
\* The peer lists of at most n peers drawn from S.
RECURSIVE ListsUpTo(_, _)
ListsUpTo(S, n) ==
    IF n = 0 THEN {<<>>}
    ELSE LET shorter == ListsUpTo(S, n - 1)
         IN  shorter \cup {Append(s, x) : s \in shorter, x \in S}

\* A duplicate-free list of HIGH_WM_MESH_DEGREE + 1 distinct peers.
OverWMList == [i \in 1..(HIGH_WM_MESH_DEGREE + 1) |-> i]

\* The lists insert is called with: callers pass duplicate-free lists.
InsertLists == {s \in ListsUpTo(Peers, MaxLen) : NoDup(s)} \cup {OverWMList}

NoCall == [op |-> "new", th |-> 0, p |-> 0, v |-> <<>>]

\* No message or control operation applied yet.
NoOp == [op |-> "none"]

\* -------------------------------------------------------------- actions
Init ==
    /\ m = Mesh_new
    /\ call = NoCall
    /\ ret = Unit
    /\ pre_m = Mesh_new
    /\ msgs = <<>>
    /\ mout = NoOp
    /\ ctl = NoOp

Insert ==
    \E k \in Topics, v \in InsertLists :
        /\ m' = insert(m, k, v).m
        /\ ret' = insert(m, k, v).ret
        /\ call' = [op |-> "insert", th |-> k, p |-> 0, v |-> v]
        /\ pre_m' = m
        /\ UNCHANGED <<msgs, mout, ctl>>

GetPeersFromTopic ==
    \E th \in Topics :
        /\ m' = get_peers_from_topic(m, th).m
        /\ ret' = get_peers_from_topic(m, th).ret
        /\ call' = [op |-> "get_peers_from_topic", th |-> th, p |-> 0, v |-> <<>>]
        /\ pre_m' = m
        /\ UNCHANGED <<msgs, mout, ctl>>

GetPeerFromTopic ==
    \E th \in Topics, p \in Peers :
        /\ m' = get_peer_from_topic(m, th, p).m
        /\ ret' = get_peer_from_topic(m, th, p).ret
        /\ call' = [op |-> "get_peer_from_topic", th |-> th, p |-> p, v |-> <<>>]
        /\ pre_m' = m
        /\ UNCHANGED <<msgs, mout, ctl>>

\* The vectors grow without limit in the code; the model stops at MaxLen.
AddPeer ==
    \E th \in Topics, p \in Peers :
        /\ th \in DOMAIN m => Len(m[th]) < MaxLen
        /\ m' = add_peer(m, th, p).m
        /\ ret' = add_peer(m, th, p).ret
        /\ call' = [op |-> "add_peer", th |-> th, p |-> p, v |-> <<>>]
        /\ pre_m' = m
        /\ UNCHANGED <<msgs, mout, ctl>>

Remove ==
    \E th \in Topics :
        /\ m' = remove(m, th).m
        /\ ret' = remove(m, th).ret
        /\ call' = [op |-> "remove", th |-> th, p |-> 0, v |-> <<>>]
        /\ pre_m' = m
        /\ UNCHANGED <<msgs, mout, ctl>>

RemovePeerFromTopic ==
    \E th \in Topics, p \in Peers :
        /\ m' = remove_peer_from_topic(m, th, p).m
        /\ ret' = remove_peer_from_topic(m, th, p).ret
        /\ call' = [op |-> "remove_peer_from_topic", th |-> th, p |-> p, v |-> <<>>]
        /\ pre_m' = m
        /\ UNCHANGED <<msgs, mout, ctl>>

Next ==
    \/ Insert
    \/ GetPeersFromTopic
    \/ GetPeerFromTopic
    \/ AddPeer
    \/ Remove
    \/ RemovePeerFromTopic

Spec == Init /\ [][Next]_vars

TypeOK ==
    /\ DOMAIN m \subseteq Topics
    /\ DOMAIN pre_m \subseteq Topics
    /\ \A t \in DOMAIN m : m[t] = OverWMList \/ (Range(m[t]) \subseteq Peers /\ Len(m[t]) <= MaxLen)
    /\ call.op \in {"new", "insert", "get_peers_from_topic", "get_peer_from_topic",
                    "add_peer", "remove", "remove_peer_from_topic"}
    /\ ret.tag \in {"Ok", "Some", "None", "Unit", "TopicNotInMesh", "NotGraftedToTopic"}

\* ---------------------------------------------------------- properties
\* The (topic, peer) pair is Grafted in the mesh.
Grafted(map, t, p) == t \in DOMAIN map /\ p \in Range(map[t])

\* Every topic other than th has the same entry (or none) in both meshes.
OthersSame(a, b, th) ==
    /\ (DOMAIN a) \ {th} = (DOMAIN b) \ {th}
    /\ \A t \in (DOMAIN a) \ {th} : a[t] = b[t]

\* C1: remove_peer_from_topic(t, p) with t in the mesh and p in mesh(t)
\* returns Ok, keeps t in the mesh with its previous list less p (the other
\* peers in their order), and leaves every other topic's list unchanged.
C1_RemovePeerKeepsTopic ==
    (/\ call.op = "remove_peer_from_topic"
     /\ Grafted(pre_m, call.th, call.p))
    => /\ ret.tag = "Ok"
       /\ call.th \in DOMAIN m
       /\ m[call.th] = VecRemove(pre_m[call.th], Position(pre_m[call.th], call.p))
       /\ OthersSame(pre_m, m, call.th)

\* C2: in every state reached by insert (with duplicate-free lists),
\* add_peer, remove and remove_peer_from_topic, no peer occurs more than
\* once in the peer list of any topic.
C2_NoDuplicatePeer == \A t \in DOMAIN m : NoDup(m[t])

\* C3: add_peer(t, p) with p already in mesh(t) reports AlreadyGrafted and
\* leaves the mesh as it was.
C3_AddPeerAlreadyGrafted ==
    (/\ call.op = "add_peer"
     /\ Grafted(pre_m, call.th, call.p))
    => /\ ret.tag = "AlreadyGrafted"
       /\ m = pre_m

\* C4: a remove_peer_from_topic that returns NotGraftedToTopic or
\* TopicNotInMesh leaves every topic, the one named included, with the peer
\* list it had.
C4_FailedRemovalNoChange ==
    (/\ call.op = "remove_peer_from_topic"
     /\ ret.tag \in {"NotGraftedToTopic", "TopicNotInMesh"})
    => m = pre_m

\* C5: get_peer_from_topic(t, p) and remove_peer_from_topic(t, p) return
\* TopicNotInMesh exactly when t is no key of the mesh, NotGraftedToTopic
\* exactly when t is a key and p is not in mesh(t), and Ok exactly when t is
\* a key and p is in mesh(t).
C5_LookupRemovalResult ==
    call.op \in {"get_peer_from_topic", "remove_peer_from_topic"}
    => /\ ret.tag = "TopicNotInMesh" <=> call.th \notin DOMAIN pre_m
       /\ ret.tag = "NotGraftedToTopic"
            <=> (call.th \in DOMAIN pre_m /\ call.p \notin Range(pre_m[call.th]))
       /\ ret.tag = "Ok" <=> Grafted(pre_m, call.th, call.p)
       /\ (call.op = "get_peer_from_topic" /\ ret.tag = "Ok") => ret.val = <<call.p>>

C5_Witness ==
    /\ call.op = "remove_peer_from_topic"
    /\ ret.tag = "NotGraftedToTopic"
    /\ call.th \in DOMAIN pre_m
    /\ pre_m[call.th] # <<>>

\* C6: every topic is absent from the mesh or has at most
\* HIGH_WM_MESH_DEGREE peers in its list.
C6_AtMostHighWM == \A t \in DOMAIN m : Len(m[t]) <= HIGH_WM_MESH_DEGREE

\* C7: add_peer(t, p) with t no key of the mesh changes nothing (t is not
\* created), and a topic becomes a key of the mesh only through insert.
C7_AddPeerAbsentTopic ==
    /\ (call.op = "add_peer" /\ call.th \notin DOMAIN pre_m) => m = pre_m
    /\ \A t \in (DOMAIN m) \ (DOMAIN pre_m) : call.op = "insert" /\ call.th = t

C7_Witness ==
    /\ call.op = "add_peer"
    /\ call.th \notin DOMAIN pre_m
    /\ DOMAIN pre_m # {}
    /\ m = pre_m

\* C8: add_peer(t, p) with t in the mesh and p not in mesh(t) makes
\* get_peer_from_topic(t, p) return Ok(p) and the list of t its previous list
\* followed by p, and changes the grafted status of no other pair; a Grafted
\* pair (t, p) stays Grafted until remove_peer_from_topic(t, p), remove(t) or
\* insert(t, _) is applied.
C8_GraftOnePair ==
    /\ (/\ call.op = "add_peer"
        /\ call.th \in DOMAIN pre_m
        /\ call.p \notin Range(pre_m[call.th]))
       => /\ get_peer_from_topic(m, call.th, call.p).ret = Ok(<<call.p>>)
          /\ m[call.th] = Append(pre_m[call.th], call.p)
          /\ \A t \in Topics, p \in Peers :
                <<t, p>> # <<call.th, call.p>>
                => (Grafted(m, t, p) <=> Grafted(pre_m, t, p))
    /\ \A t \in Topics, p \in Peers :
          (Grafted(pre_m, t, p) /\ ~Grafted(m, t, p))
          => \/ (call.op = "remove_peer_from_topic" /\ call.th = t /\ call.p = p)
             \/ (call.op = "remove" /\ call.th = t)
             \/ (call.op = "insert" /\ call.th = t)

\* C9: insert(t, peers) makes the list of t exactly peers whatever t held,
\* returns the list t held before (none when t was absent), and leaves every
\* other topic's list unchanged.
C9_InsertReplaces ==
    call.op = "insert"
    => /\ call.th \in DOMAIN m
       /\ get_peers_from_topic(m, call.th).ret = Ok(call.v)
       /\ ret = IF call.th \in DOMAIN pre_m THEN Some(pre_m[call.th]) ELSE None
       /\ OthersSame(pre_m, m, call.th)

C9_Witness ==
    /\ call.op = "insert"
    /\ call.th \in DOMAIN pre_m
    /\ pre_m[call.th] # <<>>
    /\ pre_m[call.th] # call.v
    /\ ret = Some(pre_m[call.th])
    /\ m[call.th] = call.v
    /\ (DOMAIN m) \ {call.th} # {}

\* C10: remove(t) with t a key returns the list t held, and afterwards
\* get_peers_from_topic(t) fails with TopicNotInMesh; with t no key it
\* returns TopicNotInMesh and the mesh is unchanged; either way every other
\* topic's list is unchanged.
C10_RemoveTopic ==
    call.op = "remove"
    => /\ call.th \in DOMAIN pre_m
            => /\ ret = Ok(pre_m[call.th])
               /\ get_peers_from_topic(m, call.th).ret = Err("TopicNotInMesh")
       /\ call.th \notin DOMAIN pre_m
            => /\ ret = Err("TopicNotInMesh")
               /\ m = pre_m
       /\ OthersSame(pre_m, m, call.th)

C10_Witness ==
    /\ call.op = "remove"
    /\ call.th \in DOMAIN pre_m
    /\ pre_m[call.th] # <<>>
    /\ ret = Ok(pre_m[call.th])
    /\ call.th \notin DOMAIN m
    /\ DOMAIN m # {}


(***************************************************************************)
(* Messages (protocols/gossipsub/src/message.rs).                          *)
(*                                                                         *)
(* A byte is an integer in 0..255 and a Vec<u8> a sequence of bytes.  A    *)
(* String is the sequence of its code points.  A PeerId is modelled by the *)
(* bytes it is made of, a TopicHash by the record of its string, and a     *)
(* TopicMap by the list of topic hashes in the order its iterator yields   *)
(* them.                                                                   *)
(***************************************************************************)

\* ---------------------------------------------------------------- bounds
\* The longest data and seq_no of a message.
MaxBytes == 1

\* ------------------------------------------- strings, UTF-8 and base 58
\* String::from_utf8: the string of a byte sequence, or an error.  One-byte
\* and two-byte forms are decoded; the lead bytes of longer forms do not
\* occur in the inputs and are rejected like the bytes no form allows.
RECURSIVE from_utf8(_)
from_utf8(bytes) ==
    IF bytes = <<>> THEN [ok |-> TRUE, s |-> <<>>]
    ELSE IF bytes[1] < 128
    THEN LET r == from_utf8(Tail(bytes))
         IN  [ok |-> r.ok, s |-> IF r.ok THEN <<bytes[1]>> \o r.s ELSE <<>>]
    ELSE IF /\ bytes[1] >= 194 /\ bytes[1] <= 223
            /\ Len(bytes) >= 2 /\ bytes[2] >= 128 /\ bytes[2] <= 191
    THEN LET r == from_utf8(SubSeq(bytes, 3, Len(bytes)))
         IN  [ok |-> r.ok,
              s  |-> IF r.ok
                     THEN <<(bytes[1] - 192) * 64 + (bytes[2] - 128)>> \o r.s
                     ELSE <<>>]
    ELSE [ok |-> FALSE, s |-> <<>>]

\* The UTF-8 bytes of a string (code points below 2048), as protobuf writes
\* a string field.
RECURSIVE as_bytes(_)
as_bytes(str) ==
    IF str = <<>> THEN <<>>
    ELSE IF str[1] < 128 THEN <<str[1]>> \o as_bytes(Tail(str))
    ELSE <<192 + (str[1] \div 64), 128 + (str[1] % 64)>> \o as_bytes(Tail(str))

\* The base-58 alphabet of bs58 (the Bitcoin one), as code points:
\* 1-9, A-H, J-N, P-Z, a-k, m-z.
Bs58Alphabet ==
    [i \in 1..9 |-> 48 + i] \o [i \in 1..8 |-> 64 + i] \o [i \in 1..5 |-> 73 + i]
    \o [i \in 1..11 |-> 79 + i] \o [i \in 1..11 |-> 96 + i] \o [i \in 1..14 |-> 108 + i]

\* The number of zero bytes at the head of a byte sequence.
RECURSIVE LeadingZeros(_)
LeadingZeros(bytes) ==
    IF bytes = <<>> \/ bytes[1] # 0 THEN 0 ELSE 1 + LeadingZeros(Tail(bytes))

\* Long division of the big-endian number bytes (with carry in front) by 58:
\* the quotient, as bytes, and the remainder.
RECURSIVE DivBy58(_, _)
DivBy58(bytes, carry) ==
    IF bytes = <<>> THEN [q |-> <<>>, r |-> carry]
    ELSE LET cur  == carry * 256 + bytes[1]
             rest == DivBy58(Tail(bytes), cur % 58)
         IN  [q |-> <<cur \div 58>> \o rest.q, r |-> rest.r]

\* The base-58 digits, most significant first, of the big-endian number
\* bytes, each as its character of the alphabet; no digit for zero.
RECURSIVE Bs58Digits(_)
Bs58Digits(bytes) ==
    LET n == SubSeq(bytes, LeadingZeros(bytes) + 1, Len(bytes))
    IN  IF n = <<>> THEN <<>>
        ELSE LET d == DivBy58(n, 0) IN Append(Bs58Digits(d.q), Bs58Alphabet[d.r + 1])

\* bs58::encode(bytes).into_string(): one '1' for each leading zero byte,
\* then the digits of the number the bytes spell.
bs58_encode(bytes) ==
    [i \in 1..LeadingZeros(bytes) |-> Bs58Alphabet[1]] \o Bs58Digits(bytes)

\* ----------------------------------------------------- PeerId, TopicHash
\* PeerId::into_bytes
PeerId_into_bytes(p) == p

\* PeerId::to_base58
PeerId_to_base58(p) == bs58_encode(PeerId_into_bytes(p))

\* TopicHash::into_string
TopicHash_into_string(th) == th.hash

\* ------------------------------------------------------------- GMessage
\* MsgHash::from_raw
MsgHash_from_raw(hash) == [hash |-> hash]

\* MsgHash::default(): the empty string.
MsgHash_default == MsgHash_from_raw(<<>>)

\* struct GMessage
GMessage(source, data, seq_no, topics, time_sent, hash, id) ==
    [source |-> source, data |-> data, seq_no |-> seq_no, topics |-> topics,
     time_sent |-> time_sent, hash |-> hash, id |-> id]

\* GMessage::set_hash
set_hash(msg, msg_hash) == [msg EXCEPT !.hash = msg_hash]

\* GMessage::get_hash
get_hash(msg) == msg.hash

\* GMessage::set_timestamp: Utc::now() is the time now.
set_timestamp(msg, now) == [msg EXCEPT !.time_sent = now]

\* GMessage::set_id
set_id(msg, msg_id) == [msg EXCEPT !.id = Some(msg_id)]

\* impl From<GMessage> for MsgHash
MsgHash_from(message) == message.hash

\* The conversion with the seqno of the wire record taken from the id of the
\* message when it has one.
Message_from_uses_id(message) ==
    [from     |-> PeerId_into_bytes(message.source),
     data     |-> message.data,
     seqno    |-> IF message.id.tag = "Some"
                  THEN as_bytes(message.id.val.id) ELSE message.seq_no,
     topicIDs |-> [i \in 1..Len(message.topics)
                     |-> TopicHash_into_string(message.topics[i])]]

\* impl From<GMessage> for rpc_proto::Message: from, data, seqno and
\* topicIDs are set; signature and key are not.
Message_from(message) ==
    [from     |-> PeerId_into_bytes(message.source),
     data     |-> message.data,
     seqno    |-> message.seq_no,
     topicIDs |-> [i \in 1..Len(message.topics)
                     |-> TopicHash_into_string(message.topics[i])]]

\* A length-delimited protobuf field: the key (number * 8 + wire type 2),
\* the length (one varint byte below 128) and the payload.
PbField(number, payload) == <<number * 8 + 2, Len(payload)>> \o payload

\* Each string of a repeated string field, as one field each.
RECURSIVE PbRepeated(_, _)
PbRepeated(number, strs) ==
    IF strs = <<>> THEN <<>>
    ELSE PbField(number, as_bytes(strs[1])) \o PbRepeated(number, Tail(strs))

\* rpc_proto::Message::write_to_bytes: from = 1, data = 2, seqno = 3,
\* topicIDs = 4, each written because it was set.
write_to_bytes(msg) ==
    PbField(1, msg.from) \o PbField(2, msg.data) \o PbField(3, msg.seqno)
    \o PbRepeated(4, msg.topicIDs)

\* MsgHashBuilder::new
MsgHashBuilder_new(msg) == [builder |-> Message_from(msg)]

\* MsgHashBuilder::build
MsgHashBuilder_build(self) == [hash |-> bs58_encode(write_to_bytes(self.builder))]

\* MsgHash::new
MsgHash_new(msg) == MsgHashBuilder_build(MsgHashBuilder_new(msg))

\* MsgId::new: format!("{}{}", String::from_utf8(seq_no).expect(..),
\* source.to_base58()); expect panics on a seq_no that is not UTF-8.
MsgId_new(msg) ==
    IF from_utf8(msg.seq_no).ok
    THEN [tag |-> "MsgId", id |-> from_utf8(msg.seq_no).s \o PeerId_to_base58(msg.source)]
    ELSE [tag |-> "panic", id |-> <<>>]


\* --------------------------------------------------------------- inputs
\* Peer ids, as their bytes; their base-58 forms are "1" and "21".
Sources == {<<0>>, <<58>>}

\* The bytes data and seq_no are made of: 50 is the digit '2', and 255 is
\* a byte that no UTF-8 string holds.
DataBytes == {7}
SeqNoBytes == {50, 255}

Datas == ListsUpTo(DataBytes, MaxBytes)
SeqNos == ListsUpTo(SeqNoBytes, MaxBytes)

\* Topic hashes "a" and "b", and the topic maps of a message.
TopicA == [hash |-> <<97>>]
TopicB == [hash |-> <<98>>]
TopicMaps == {<<TopicA>>, <<TopicA, TopicB>>}

\* Times of the clock.
Times == {0, 1}

\* A hash and an id given as raw strings ("x" and "y").
RawHash == MsgHash_from_raw(<<120>>)
RawId == [id |-> <<121>>]

\* The fields of a GMessage that are not part of its wire record, as the
\* struct literal is given them.
Extras ==
    {[time_sent |-> 0, hash |-> MsgHash_default, id |-> None],
     [time_sent |-> 1, hash |-> RawHash, id |-> Some(RawId)]}

\* The messages built by a struct literal.
Messages ==
    {GMessage(src, d, sq, ts, x.time_sent, x.hash, x.id) :
        src \in Sources, d \in Datas, sq \in SeqNos, ts \in TopicMaps, x \in Extras}

\* The mesh is not used by the message specifications.
MeshIdle ==
    /\ m = Mesh_new
    /\ call = NoCall
    /\ ret = Unit
    /\ pre_m = Mesh_new

\* ------------------------------------------- two messages side by side
InitPair ==
    /\ MeshIdle
    /\ msgs \in Messages \X Messages
    /\ mout = NoOp
    /\ ctl = NoOp

\* MsgId::new applied to each of the two messages.
NewMsgIds ==
    /\ mout' = [op |-> "MsgId::new", val |-> <<MsgId_new(msgs[1]), MsgId_new(msgs[2])>>]
    /\ UNCHANGED <<m, call, ret, pre_m, msgs, ctl>>

\* MsgHash::new applied to each of the two messages.
NewMsgHashes ==
    /\ mout' = [op |-> "MsgHash::new", val |-> <<MsgHash_new(msgs[1]), MsgHash_new(msgs[2])>>]
    /\ UNCHANGED <<m, call, ret, pre_m, msgs, ctl>>

NextPair ==
    \/ NewMsgIds
    \/ NewMsgHashes

SpecPair == InitPair /\ [][NextPair]_vars

InitMsg ==
    /\ MeshIdle
    /\ msgs \in {<<msg>> : msg \in Messages}
    /\ mout = NoOp
    /\ ctl = NoOp

\* The hashes set_hash is called with: the hash built from the message, or
\* any other MsgHash.
SetHashInputs(msg) == {MsgHash_new(msg), MsgHash_default, RawHash}

\* The ids set_id is called with: the id built from the message (when
\* MsgId::new returns), or any other MsgId.
SetIdInputs(msg) ==
    {RawId} \cup (IF MsgId_new(msg).tag = "MsgId" THEN {[id |-> MsgId_new(msg).id]} ELSE {})

SetHash ==
    \E h \in SetHashInputs(msgs[1]) :
        /\ msgs' = <<set_hash(msgs[1], h)>>
        /\ mout' = [op |-> "set_hash", val |-> <<h>>]
        /\ UNCHANGED <<m, call, ret, pre_m, ctl>>

SetId ==
    \E i \in SetIdInputs(msgs[1]) :
        /\ msgs' = <<set_id(msgs[1], i)>>
        /\ mout' = [op |-> "set_id", val |-> <<i>>]
        /\ UNCHANGED <<m, call, ret, pre_m, ctl>>

SetTimestamp ==
    \E now \in Times :
        /\ msgs' = <<set_timestamp(msgs[1], now)>>
        /\ mout' = [op |-> "set_timestamp", val |-> <<now>>]
        /\ UNCHANGED <<m, call, ret, pre_m, ctl>>

GetHash ==
    /\ mout' = [op |-> "get_hash", val |-> <<get_hash(msgs[1])>>]
    /\ UNCHANGED <<m, call, ret, pre_m, msgs, ctl>>

\* MsgHash::from(m.clone())
HashFromMessage ==
    /\ mout' = [op |-> "MsgHash::from", val |-> <<MsgHash_from(msgs[1])>>]
    /\ UNCHANGED <<m, call, ret, pre_m, msgs, ctl>>

NextMsg ==
    \/ SetHash
    \/ SetId
    \/ SetTimestamp
    \/ GetHash
    \/ HashFromMessage

SpecMsg == InitMsg /\ [][NextMsg]_vars

\* C12: for a GMessage built and then changed by any set_hash, set_id and
\* set_timestamp, the hash that get_hash and MsgHash::from return is
\* MsgHash::new of the message.
C12_StoredHashIsNew ==
    mout.op \in {"get_hash", "MsgHash::from"}
    => mout.val[1] = MsgHash_new(msgs[1])

\* The four fields of a message that its wire record carries.
WireFields(msg) == <<msg.source, msg.data, msg.seq_no, msg.topics>>

MaxEntries == 2

\* ---------------------------------------------------------- conversions
\* impl From<ControlIHave> for rpc_proto::ControlIHave: the topic id and
\* the id of every message of recent_mcache.
ControlIHave_from(control_i_have) ==
    [topicID    |-> TopicHash_into_string(control_i_have.topic),
     messageIDs |-> [i \in 1..Len(control_i_have.recent_mcache)
                       |-> control_i_have.recent_mcache[i].id.id]]

\* impl From<ControlIWant> for rpc_proto::ControlIWant
ControlIWant_from(control_i_want) ==
    [messageIDs |-> [i \in 1..Len(control_i_want.messages)
                       |-> control_i_want.messages[i].id.id]]

\* The messages field the graft and prune conversions read: ControlGraft
\* and ControlPrune declare no such field, so there is nothing to read.
MessagesOf(control) ==
    IF "messages" \in DOMAIN control THEN control.messages ELSE <<>>

\* impl From<ControlGraft> for rpc_proto::ControlGraft: set_messageIDs is
\* the one setter called; the topic id keeps the value new() gave it.
ControlGraft_from(control_graft) ==
    [topicID    |-> <<>>,
     messageIDs |-> [i \in 1..Len(MessagesOf(control_graft))
                       |-> MessagesOf(control_graft)[i].id.id]]

\* impl From<ControlPrune> for rpc_proto::ControlPrune: as for the graft.
ControlPrune_from(control_prune) ==
    [topicID    |-> <<>>,
     messageIDs |-> [i \in 1..Len(MessagesOf(control_prune))
                       |-> MessagesOf(control_prune)[i].id.id]]

\* rpc_proto::ControlMessage::new
RpcControlMessage_new == [ihave |-> <<>>, iwant |-> <<>>, graft |-> <<>>, prune |-> <<>>]

\* ctrl.get_ihave().to_vec().push(x), and so for the other fields: to_vec
\* copies the slice, x is pushed on the copy, and the copy is dropped.
PushOnCopy(ctrl, field, x) ==
    LET copy == Append(ctrl[field], x)
    IN  ctrl

\* One of the four for loops: each converted entry pushed in turn.
RECURSIVE PushEach(_, _, _)
PushEach(ctrl, field, converted) ==
    IF converted = <<>> THEN ctrl
    ELSE PushEach(PushOnCopy(ctrl, field, converted[1]), field, Tail(converted))

\* impl From<ControlMessage> for rpc_proto::ControlMessage
ControlMessage_from(control) ==
    LET c0 == RpcControlMessage_new
        c1 == PushEach(c0, "ihave",
                [i \in 1..Len(control.ihave) |-> ControlIHave_from(control.ihave[i])])
        c2 == PushEach(c1, "iwant",
                [i \in 1..Len(control.iwant) |-> ControlIWant_from(control.iwant[i])])
        c3 == PushEach(c2, "graft",
                [i \in 1..Len(control.graft) |-> ControlGraft_from(control.graft[i])])
        c4 == PushEach(c3, "prune",
                [i \in 1..Len(control.prune) |-> ControlPrune_from(control.prune[i])])
    IN  c4

\* --------------------------------------------------------------- inputs
\* A cached message with its id, and a MsgRep::id.
CachedMessage == [id |-> RawId]
MsgRepId == [id |-> RawId]

IHaves == {[topic |-> TopicA, recent_mcache |-> <<CachedMessage>>],
           [topic |-> TopicB, recent_mcache |-> <<>>]}
IWants == {[messages |-> <<MsgRepId>>], [messages |-> <<>>]}
Grafts == {[topic |-> TopicA], [topic |-> TopicB]}
Prunes == {[topic |-> TopicA], [topic |-> TopicB]}

ControlMessages ==
    {[ihave |-> h, iwant |-> w, graft |-> g, prune |-> q] :
        h \in ListsUpTo(IHaves, MaxEntries), w \in ListsUpTo(IWants, MaxEntries),
        g \in ListsUpTo(Grafts, MaxEntries), q \in ListsUpTo(Prunes, MaxEntries)}

\* -------------------------------------------------------------- actions
\* A conversion takes its argument by value: each record at hand is
\* converted once.
ControlInput(kind, x) == [op |-> "input", kind |-> kind, inp |-> x]

InitCtl ==
    /\ MeshIdle
    /\ msgs = <<>>
    /\ mout = NoOp
    /\ ctl \in {ControlInput("control", c) : c \in ControlMessages}
           \cup {ControlInput("ihave", h) : h \in IHaves}
           \cup {ControlInput("iwant", w) : w \in IWants}
           \cup {ControlInput("graft", g) : g \in Grafts}
           \cup {ControlInput("prune", q) : q \in Prunes}

ConvertControl ==
    /\ ctl.op = "input" /\ ctl.kind = "control"
    /\ ctl' = [op |-> "control", inp |-> ctl.inp, out |-> ControlMessage_from(ctl.inp)]
    /\ UNCHANGED <<m, call, ret, pre_m, msgs, mout>>

ConvertIHave ==
    /\ ctl.op = "input" /\ ctl.kind = "ihave"
    /\ ctl' = [op |-> "ihave", inp |-> ctl.inp, out |-> ControlIHave_from(ctl.inp)]
    /\ UNCHANGED <<m, call, ret, pre_m, msgs, mout>>

ConvertIWant ==
    /\ ctl.op = "input" /\ ctl.kind = "iwant"
    /\ ctl' = [op |-> "iwant", inp |-> ctl.inp, out |-> ControlIWant_from(ctl.inp)]
    /\ UNCHANGED <<m, call, ret, pre_m, msgs, mout>>

ConvertGraft ==
    /\ ctl.op = "input" /\ ctl.kind = "graft"
    /\ ctl' = [op |-> "graft", inp |-> ctl.inp, out |-> ControlGraft_from(ctl.inp)]
    /\ UNCHANGED <<m, call, ret, pre_m, msgs, mout>>

ConvertPrune ==
    /\ ctl.op = "input" /\ ctl.kind = "prune"
    /\ ctl' = [op |-> "prune", inp |-> ctl.inp, out |-> ControlPrune_from(ctl.inp)]
    /\ UNCHANGED <<m, call, ret, pre_m, msgs, mout>>

NextCtl ==
    \/ ConvertControl
    \/ ConvertIHave
    \/ ConvertIWant
    \/ ConvertGraft
    \/ ConvertPrune

SpecCtl == InitCtl /\ [][NextCtl]_vars

\* C14: the wire record of a ControlMessage c holds as many IHAVE, IWANT,
\* GRAFT and PRUNE entries as c, each the conversion of the entry of c at
\* the same place.
C14_ControlEntriesKept ==
    ctl.op = "control"
    => /\ Len(ctl.out.ihave) = Len(ctl.inp.ihave)
       /\ Len(ctl.out.iwant) = Len(ctl.inp.iwant)
       /\ Len(ctl.out.graft) = Len(ctl.inp.graft)
       /\ Len(ctl.out.prune) = Len(ctl.inp.prune)
       /\ \A i \in 1..Len(ctl.out.ihave) : ctl.out.ihave[i] = ControlIHave_from(ctl.inp.ihave[i])
       /\ \A i \in 1..Len(ctl.out.iwant) : ctl.out.iwant[i] = ControlIWant_from(ctl.inp.iwant[i])
       /\ \A i \in 1..Len(ctl.out.graft) : ctl.out.graft[i] = ControlGraft_from(ctl.inp.graft[i])
       /\ \A i \in 1..Len(ctl.out.prune) : ctl.out.prune[i] = ControlPrune_from(ctl.inp.prune[i])

\* C15: the wire record of a ControlGraft or ControlPrune has its topic id
\* set to the string of the topic and carries no message ids.
C15_GraftPruneTopicOnly ==
    ctl.op \in {"graft", "prune"}
    => /\ ctl.out.topicID = TopicHash_into_string(ctl.inp.topic)
       /\ ctl.out.messageIDs = <<>>

====
